---- MODULE Spec2Model ----
(***************************************************************************)
(* AsyncBuzzer: the non-blocking buzzer scheduler of src/AsyncBuzzer.cpp.  *)
(* Three static state machines (pulseState, patternState, melodyState) are *)
(* advanced by update() from the millisecond clock millis().               *)
(*                                                                         *)
(* The clock is the code's uint32_t counter.  TLC's integers are 32-bit    *)
(* signed, so the counter is modelled at a reduced width: it counts modulo *)
(* ClockMod and every uint32_t expression of the code is taken modulo      *)
(* ClockMod.  Durations, intervals and delays (uint16_t in the code) are   *)
(* small against ClockMod, as 65535 is against 2^32; their sums are        *)
(* computed without wrap-around (the code adds them in int).               *)
(***************************************************************************)
EXTENDS Integers, Sequences, FiniteSets, TLC

VARIABLES
    now,            \* millis(): the millisecond clock
    config,         \* static Config config
    pulseState,     \* static Pulse pulseState
    patternState,   \* static Pattern patternState
    melodyState,    \* static Melody melodyState
    ret,            \* << r >> if the last step was update() returning r, else << >>
    invalid,        \* << >>, or after a start call with invalid input: << s >>,
                    \* s the pulse, pattern and melody states the call found
    started,        \* << >>, or after a start call that accepted its input:
                    \* << c >>, c the function called and its arguments
    calls,          \* pin driver calls made by the last operation
    train,          \* history: the pulse train loaded last and its tones so far
    sinceFire,      \* history: clock time since the train's last tone (capped)
    step,           \* history: the melody step begun last (capped time, tones)
    played,         \* history: clock time since the melody's first step began (capped)
    wait,           \* history: clock time since the pattern entry's last tone
                    \* and since its train was ended (capped)
    blocking        \* << >>, or while a blocking wrapper is in its loop: << w >>,
                    \* w the wrapper and whether its start call began a sequence

vars == <<now, config, pulseState, patternState, melodyState, ret, invalid, started,
          calls, train, sinceFire, step, played, wait, blocking>>

-----------------------------------------------------------------------------
(* Bounds of the model *)

ClockMod == 6
MaxJump == 2
MaxCount == 2
MaxDuration == 1
MaxDelay == 1

(* Program constants *)

NoPin == 255
Uint8Mod == 256
DefaultPulseDelay == 300

Pins == {NoPin, 9}
Counts == 0..MaxCount
Durations == 0..MaxDuration
Intervals == 0..MaxDuration     \* intervals range like durations
Delays == 0..MaxDelay
PulseFrequencies == {1000}

-----------------------------------------------------------------------------
(* The structs of AsyncBuzzer.h, with their constructors *)

Tone(f, d, r) == [frequency |-> f, duration |-> d, rest |-> r]

Config(p) == [pin |-> p]

Pulse(p, f, d, i, t, a) ==
    [pulses |-> p, frequency |-> f, duration |-> d, interval |-> i,
     last |-> t, active |-> a]

Pattern(p, c, cur, a, r, pd) ==
    [pulses |-> p, count |-> c, current |-> cur, active |-> a, repeat |-> r,
     pulseDelay |-> pd, lastPulseEnd |-> 0, waitingForDelay |-> FALSE]

Melody(t, c, cur, a, r) ==
    [tones |-> t, count |-> c, current |-> cur, active |-> a, repeat |-> r,
     toneStart |-> 0, playingTone |-> FALSE]

nullptr == "nullptr"

(* The largest count a uint8_t argument holds *)
MaxUint8 == Uint8Mod - 1

(* The caller's arrays: a pointer is the name of one of them, or nullptr.  *)
(* paMax and taMax are the longest arrays a count can describe, of entries *)
(* that take no time: a train without pulses, a tone of 0 ms.              *)
PulseArrays ==
    [pa1 |-> << Pulse(1, 1000, 1, 0, 0, FALSE) >>,
     pa2 |-> << Pulse(2, 1000, 1, 1, 0, FALSE), Pulse(1, 1000, 0, 1, 0, FALSE) >>,
     paMax |-> [k \in 1..MaxUint8 |-> Pulse(0, 1000, 0, 0, 0, FALSE)]]

ToneArrays ==
    [ta1 |-> << Tone(440, 1, 1) >>,
     ta2 |-> << Tone(440, 1, 0), Tone(0, 1, 1) >>,
     taMax |-> [k \in 1..MaxUint8 |-> Tone(440, 0, 0)]]

PulsePtrs == {nullptr, "pa1", "pa2"}
TonePtrs == {nullptr, "ta1", "ta2"}

(* The counts a caller passes with pointer p: up to the array's length, and *)
(* any count with nullptr                                                  *)
CallerCounts(arrays, p) == IF p = nullptr THEN Counts ELSE 0..Len(arrays[p])

-----------------------------------------------------------------------------
(* The pin driver and the clock *)

ToneCall(f, d) == [fn |-> "tone", frequency |-> f, duration |-> d]
NoToneCall == [fn |-> "noTone"]
PinModeCall(m) == [fn |-> "pinMode", mode |-> m]
DigitalWriteCall == [fn |-> "digitalWrite"]

HasTone(cs) == \E k \in 1..Len(cs) : cs[k].fn = "tone"
HasNoTone(cs) == \E k \in 1..Len(cs) : cs[k].fn = "noTone"

(* uint32_t subtraction now - ref *)
Elapsed(t, ref) == (t - ref) % ClockMod

(* uint32_t addition millis() + d *)
After(t, d) == (t + d) % ClockMod

(* Clock time e + dt, measured only up to the threshold cap it is compared with *)
Capped(e, dt, cap) == IF e + dt > cap THEN cap ELSE e + dt

NoTrain == [count |-> 0, fired |-> 0, done |-> FALSE]
NewTrain(c) == [count |-> c, fired |-> 0, done |-> FALSE]
NoStep == [begun |-> FALSE, elapsed |-> 0, tones |-> 0]
NoWait == [tone |-> 0, end |-> 0]
NoPlay == [begun |-> FALSE, ms |-> 0]

-----------------------------------------------------------------------------
Init ==
    /\ now = 0
    /\ config = Config(NoPin)
    /\ pulseState = Pulse(0, 0, 0, 0, 0, FALSE)
    /\ patternState = Pattern(nullptr, 0, 0, FALSE, FALSE, DefaultPulseDelay)
    /\ melodyState = Melody(nullptr, 0, 0, FALSE, FALSE)
    /\ ret = << >>
    /\ invalid = << >>
    /\ started = << >>
    /\ calls = << >>
    /\ train = NoTrain
    /\ sinceFire = 0
    /\ step = NoStep
    /\ played = NoPlay
    /\ wait = NoWait
    /\ blocking = << >>

-----------------------------------------------------------------------------
(* update(), first block: the pulse train (AsyncBuzzer.cpp lines 85-107) *)

PulseDue(p, t) ==
    p.last = 0 \/ Elapsed(t, p.last) >= p.interval + p.duration

(* FirePulse without the decrement of the remaining count (line 94 dropped) *)
FirePulseNoDecrement(p, t) == [p EXCEPT !.last = t]

FirePulse(p, t) == [p EXCEPT !.last = t, !.pulses = p.pulses - 1]

(* EndPulse without the flag of line 103: the train ends and the pattern is *)
(* not told to wait                                                        *)
EndPulseNoWait(p, pat, t) ==
    [pulse |-> [p EXCEPT !.active = FALSE],
     pattern |-> IF pat.active
                 THEN [pat EXCEPT !.lastPulseEnd = After(t, p.duration)]
                 ELSE pat,
     calls |-> << >>]

EndPulse(p, pat, t) ==
    [pulse |-> [p EXCEPT !.active = FALSE],
     pattern |-> IF pat.active
                 THEN [pat EXCEPT !.lastPulseEnd = After(t, p.duration),
                                  !.waitingForDelay = TRUE]
                 ELSE pat,
     calls |-> << >>]

updatePulse(p, pat, t) ==
    IF p.pulses > 0
    THEN IF PulseDue(p, t)
         THEN [pulse |-> FirePulse(p, t), pattern |-> pat,
               calls |-> << ToneCall(p.frequency, p.duration) >>]
         ELSE [pulse |-> p, pattern |-> pat, calls |-> << >>]
    ELSE EndPulse(p, pat, t)

-----------------------------------------------------------------------------
(* advancePattern() (lines 60-81) and the pattern block of update()        *)
(* (lines 109-123)                                                         *)

LoadEntry(pat) ==
    LET nextPulse == PulseArrays[pat.pulses][pat.current + 1]
    IN  Pulse(nextPulse.pulses, nextPulse.frequency, nextPulse.duration,
              nextPulse.interval, 0, TRUE)

(* advancePattern() with the repeat test of line 70 dropped: the end of the *)
(* list always deactivates                                                 *)
advancePatternNoRepeat(pat, pul) ==
    IF ~pat.active \/ pat.pulses = nullptr \/ pat.count = 0
    THEN [pattern |-> [pat EXCEPT !.active = FALSE], pulse |-> pul, ret |-> FALSE]
    ELSE LET cur == (pat.current + 1) % Uint8Mod
         IN  IF cur >= pat.count
             THEN [pattern |-> [pat EXCEPT !.current = cur, !.active = FALSE],
                   pulse |-> pul, ret |-> FALSE]
             ELSE LET q == [pat EXCEPT !.current = cur]
                  IN  [pattern |-> q, pulse |-> LoadEntry(q), ret |-> TRUE]

(* advancePattern() with line 74 dropped: the end of a list that does not  *)
(* repeat leaves the pattern active                                        *)
advancePatternStaysActive(pat, pul) ==
    IF ~pat.active \/ pat.pulses = nullptr \/ pat.count = 0
    THEN [pattern |-> [pat EXCEPT !.active = FALSE], pulse |-> pul, ret |-> FALSE]
    ELSE LET cur == (pat.current + 1) % Uint8Mod
         IN  IF cur >= pat.count
             THEN IF pat.repeat
                  THEN LET q == [pat EXCEPT !.current = 0]
                       IN  [pattern |-> q, pulse |-> LoadEntry(q), ret |-> TRUE]
                  ELSE [pattern |-> [pat EXCEPT !.current = cur],
                        pulse |-> pul, ret |-> FALSE]
             ELSE LET q == [pat EXCEPT !.current = cur]
                  IN  [pattern |-> q, pulse |-> LoadEntry(q), ret |-> TRUE]

advancePattern(pat, pul) ==
    IF ~pat.active \/ pat.pulses = nullptr \/ pat.count = 0
    THEN [pattern |-> [pat EXCEPT !.active = FALSE], pulse |-> pul, ret |-> FALSE]
    ELSE LET cur == (pat.current + 1) % Uint8Mod
         IN  IF cur >= pat.count
             THEN IF pat.repeat
                  THEN LET q == [pat EXCEPT !.current = 0]
                       IN  [pattern |-> q, pulse |-> LoadEntry(q), ret |-> TRUE]
                  ELSE [pattern |-> [pat EXCEPT !.current = cur, !.active = FALSE],
                        pulse |-> pul, ret |-> FALSE]
             ELSE LET q == [pat EXCEPT !.current = cur]
                  IN  [pattern |-> q, pulse |-> LoadEntry(q), ret |-> TRUE]

DelayElapsed(pat, t) ==
    /\ t >= pat.lastPulseEnd
    /\ Elapsed(t, pat.lastPulseEnd) >= pat.pulseDelay

updatePattern(pat, pul, t) ==
    IF pat.active /\ pat.waitingForDelay
    THEN IF DelayElapsed(pat, t)
         THEN advancePattern([pat EXCEPT !.waitingForDelay = FALSE], pul)
         ELSE [pattern |-> pat, pulse |-> pul, ret |-> FALSE]
    ELSE IF pat.active /\ ~pul.active /\ ~pat.waitingForDelay
         THEN advancePattern(pat, pul)
         ELSE [pattern |-> pat, pulse |-> pul, ret |-> FALSE]

-----------------------------------------------------------------------------
(* update(), melody block (lines 125-166) *)

(* The melody guard of line 125 without its test of the pattern *)
MelodyRunsDespitePattern(mel, pin, pul, pat) ==
    mel.active /\ pin # NoPin /\ ~pul.active

MelodyRuns(mel, pin, pul, pat) ==
    mel.active /\ pin # NoPin /\ ~pul.active /\ ~pat.active

CurrentTone(mel) == ToneArrays[mel.tones][mel.current + 1]

BeginTone(mel, t) ==
    [melody |-> [mel EXCEPT !.toneStart = t, !.playingTone = TRUE],
     calls |-> IF CurrentTone(mel).frequency > 0
               THEN << ToneCall(CurrentTone(mel).frequency, CurrentTone(mel).duration) >>
               ELSE << >>,
     ev |-> "begin"]

ToneOver(mel, t) == Elapsed(t, mel.toneStart) >= CurrentTone(mel).duration

(* The rest test of line 148 with the rest left out of the threshold *)
RestOverWithoutRest(mel, t) ==
    Elapsed(t, mel.toneStart) >= CurrentTone(mel).duration

(* The rest test of line 148 with the duration left out of the threshold *)
RestOverWithoutDuration(mel, t) ==
    Elapsed(t, mel.toneStart) >= CurrentTone(mel).rest

RestOver(mel, t) ==
    Elapsed(t, mel.toneStart) >= CurrentTone(mel).duration + CurrentTone(mel).rest

EndOfMelody(mel) ==
    IF mel.repeat
    THEN [melody |-> [mel EXCEPT !.current = 0, !.toneStart = 0,
                                 !.playingTone = FALSE],
          calls |-> << >>, ev |-> "restart"]
    ELSE [melody |-> [mel EXCEPT !.active = FALSE], calls |-> << >>, ev |-> "end"]

updateMelody(mel, t) ==
    IF mel.current < mel.count
    THEN IF mel.toneStart = 0
         THEN BeginTone(mel, t)
         ELSE IF mel.playingTone
              THEN IF ToneOver(mel, t)
                   THEN [melody |-> [mel EXCEPT !.playingTone = FALSE],
                         calls |-> << NoToneCall >>, ev |-> "rest"]
                   ELSE [melody |-> mel, calls |-> << >>, ev |-> "none"]
              ELSE IF RestOver(mel, t)
                   THEN [melody |-> [mel EXCEPT
                                        !.current = (mel.current + 1) % Uint8Mod,
                                        !.toneStart = 0],
                         calls |-> << >>, ev |-> "next"]
                   ELSE [melody |-> mel, calls |-> << >>, ev |-> "none"]
    ELSE EndOfMelody(mel)

-----------------------------------------------------------------------------
(* History kept for the properties *)

(* A start call's input is invalid: count = 0, a null sequence, or no pin *)
InvalidInput(bad) ==
    IF bad THEN << <<pulseState, patternState, melodyState>> >> ELSE << >>

(* A start call fn(args) is made: its input is bad, or passes its test *)
StartedWith(fn, bad, args) ==
    IF bad THEN << >> ELSE << [fn |-> fn, args |-> args] >>

Gap(pul, g) == IF pul.active THEN g ELSE 0

(* The playing time a melody's steps ask for: the sum of duration + rest   *)
(* over the first n entries of the array, summed by halves                 *)
RECURSIVE PlayTimeBetween(_, _, _)
PlayTimeBetween(tones, lo, hi) ==
    IF lo > hi THEN 0
    ELSE IF lo = hi
         THEN ToneArrays[tones][lo].duration + ToneArrays[tones][lo].rest
         ELSE LET mid == (lo + hi) \div 2
              IN  PlayTimeBetween(tones, lo, mid) + PlayTimeBetween(tones, mid + 1, hi)

PlayTime(tones, n) == PlayTimeBetween(tones, 1, n)

(* The melody's clock: since update() began its first step, measured up to *)
(* one millisecond past the melody's playing time                          *)
PlayedAfterTick(dt) ==
    IF played.begun /\ melodyState.active
    THEN [played EXCEPT !.ms =
             Capped(played.ms, dt,
                    PlayTime(melodyState.tones, melodyState.count) + 1)]
    ELSE played

PlayedAfter(m) ==
    IF m.ev = "begin" /\ ~played.begun THEN [begun |-> TRUE, ms |-> 0] ELSE played

PlayedAfterStart(tones, count) ==
    IF config.pin = NoPin \/ tones = nullptr \/ count = 0 THEN played ELSE NoPlay

(* The pattern entry's clocks: since its last tone (its train has no pulse *)
(* left) and since update() ended its train and raised the waiting flag,   *)
(* both up to the entry's duration + the pattern's delay                   *)
WaitCap == pulseState.duration + patternState.pulseDelay

WaitAfterTick(dt) ==
    IF patternState.active /\ pulseState.pulses = 0
    THEN [tone |-> Capped(wait.tone, dt, WaitCap),
          end |-> IF patternState.waitingForDelay /\ ~pulseState.active
                  THEN Capped(wait.end, dt, WaitCap)
                  ELSE wait.end]
    ELSE wait

WaitAfterPulse(r) ==
    IF ~patternState.active \/ HasTone(r.calls) THEN NoWait
    ELSE IF ~r.pulse.active THEN [wait EXCEPT !.end = 0]
    ELSE wait

WaitAfterPattern(a) ==
    IF a.pattern.active /\ a.pattern.waitingForDelay THEN wait ELSE NoWait

StepAfter(st, r) ==
    CASE r.ev = "begin" ->
             [begun |-> TRUE, elapsed |-> 0,
              tones |-> IF HasTone(r.calls) /\ st.tones < 2
                        THEN st.tones + 1 ELSE st.tones]
      [] r.ev \in {"next", "restart", "end"} -> NoStep
      [] OTHER -> st

-----------------------------------------------------------------------------
(* The clock advances by dt milliseconds between two operations *)
Tick(dt) ==
    /\ now' = After(now, dt)
    /\ ret' = << >>
    /\ invalid' = << >>
    /\ started' = << >>
    /\ played' = PlayedAfterTick(dt)
    /\ blocking' = blocking
    /\ calls' = << >>
    /\ sinceFire' = IF pulseState.active /\ train.fired > 0
                    THEN Capped(sinceFire, dt,
                                pulseState.interval + pulseState.duration)
                    ELSE sinceFire
    /\ step' = IF melodyState.active /\ step.begun
               THEN [step EXCEPT !.elapsed =
                        Capped(step.elapsed, dt,
                               CurrentTone(melodyState).duration
                                   + CurrentTone(melodyState).rest)]
               ELSE step
    /\ wait' = WaitAfterTick(dt)
    /\ UNCHANGED <<config, pulseState, patternState, melodyState, train>>

(* bool update() (lines 83-169) *)
update ==
    IF pulseState.active /\ config.pin # NoPin
    THEN LET r == updatePulse(pulseState, patternState, now)
         IN  /\ ret' = << r.pulse.last = now >>
             /\ invalid' = << >>
             /\ started' = << >>
             /\ played' = played
             /\ blocking' = blocking
             /\ pulseState' = r.pulse
             /\ patternState' = r.pattern
             /\ calls' = r.calls
             /\ train' = IF HasTone(r.calls)
                         THEN [train EXCEPT !.fired = IF train.fired > MaxCount
                                                      THEN train.fired
                                                      ELSE train.fired + 1]
                         ELSE IF ~r.pulse.active
                              THEN [train EXCEPT !.done = TRUE]
                              ELSE train
             /\ sinceFire' = Gap(r.pulse, IF HasTone(r.calls) THEN 0 ELSE sinceFire)
             /\ wait' = WaitAfterPulse(r)
             /\ UNCHANGED <<now, config, melodyState, step>>
    ELSE LET a == updatePattern(patternState, pulseState, now)
             m == IF MelodyRuns(melodyState, config.pin, a.pulse, a.pattern)
                  THEN updateMelody(melodyState, now)
                  ELSE [melody |-> melodyState, calls |-> << >>, ev |-> "none"]
         IN  /\ ret' = << FALSE >>
             /\ invalid' = << >>
             /\ started' = << >>
             /\ played' = PlayedAfter(m)
             /\ blocking' = blocking
             /\ patternState' = a.pattern
             /\ pulseState' = a.pulse
             /\ melodyState' = m.melody
             /\ calls' = m.calls
             /\ train' = IF a.ret THEN NewTrain(a.pulse.pulses) ELSE train
             /\ sinceFire' = Gap(a.pulse, IF a.ret THEN 0 ELSE sinceFire)
             /\ step' = StepAfter(step, m)
             /\ wait' = WaitAfterPattern(a)
             /\ UNCHANGED <<now, config>>

(* bool setup(Config conf, uint8_t flags) (lines 22-53), flags without BUZ_BEEP *)
setup(p, force) ==
    /\ ret' = << >>
    /\ invalid' = << >>
    /\ started' = << >>
    /\ played' = IF p = NoPin /\ config.pin # NoPin THEN NoPlay ELSE played
    /\ blocking' = blocking
    /\ IF p = NoPin /\ config.pin # NoPin
       THEN /\ calls' = << NoToneCall, PinModeCall("INPUT") >>
            /\ config' = Config(NoPin)
            /\ pulseState' = Pulse(0, 0, 0, 0, 0, FALSE)
            /\ patternState' = Pattern(nullptr, 0, 0, FALSE, FALSE, DefaultPulseDelay)
            /\ melodyState' = Melody(nullptr, 0, 0, FALSE, FALSE)
            /\ train' = NoTrain
            /\ sinceFire' = 0
            /\ step' = NoStep
            /\ wait' = NoWait
            /\ UNCHANGED now
       ELSE IF p = config.pin /\ ~force
            THEN /\ calls' = << >>
                 /\ UNCHANGED <<now, config, pulseState, patternState, melodyState,
                                train, sinceFire, step, wait>>
            ELSE /\ config' = Config(p)
                 /\ calls' = << PinModeCall("OUTPUT"), DigitalWriteCall >>
                 /\ UNCHANGED <<now, pulseState, patternState, melodyState,
                                train, sinceFire, step, wait>>

(* Config setConfig(Config conf, uint8_t flags) (lines 176-183) *)
setConfig(p) ==
    /\ ret' = << >>
    /\ invalid' = << >>
    /\ started' = << >>
    /\ played' = played
    /\ blocking' = blocking
    /\ config' = Config(p)
    /\ calls' = << >>
    /\ UNCHANGED <<now, pulseState, patternState, melodyState, train, sinceFire, step,
                   wait>>

(* void beep(frequency, duration) (lines 212-217) *)
beep(f, d) ==
    /\ ret' = << >>
    /\ invalid' = << >>
    /\ started' = << >>
    /\ played' = played
    /\ blocking' = blocking
    /\ calls' = IF config.pin = NoPin THEN << >> ELSE << ToneCall(f, d) >>
    /\ UNCHANGED <<now, config, pulseState, patternState, melodyState,
                   train, sinceFire, step, wait>>

(* void pulse(count, frequency, duration, interval) (lines 219-224) *)
pulse(count, frequency, duration, interval) ==
    /\ ret' = << >>
    /\ invalid' = InvalidInput(config.pin = NoPin \/ count = 0)
    /\ started' = StartedWith("pulse", config.pin = NoPin \/ count = 0,
                              <<count, frequency, duration, interval>>)
    /\ played' = played
    /\ blocking' = blocking
    /\ calls' = << >>
    /\ IF config.pin = NoPin \/ count = 0
       THEN UNCHANGED <<pulseState, train, sinceFire, wait>>
       ELSE /\ pulseState' = Pulse(count, frequency, duration, interval, 0, TRUE)
            /\ train' = NewTrain(count)
            /\ sinceFire' = 0
            /\ wait' = NoWait
    /\ UNCHANGED <<now, config, patternState, melodyState, step>>

(* pattern() without the load of entry 0 (lines 240-241 dropped): the pulse *)
(* train is only cancelled                                                 *)
patternNoLoad(pulses, count, repeat, pulseDelay) ==
    /\ ret' = << >>
    /\ invalid' = InvalidInput(config.pin = NoPin \/ pulses = nullptr \/ count = 0)
    /\ started' = StartedWith("pattern",
                              config.pin = NoPin \/ pulses = nullptr \/ count = 0,
                              <<pulses, count, repeat, pulseDelay>>)
    /\ played' = played
    /\ blocking' = blocking
    /\ calls' = << >>
    /\ IF config.pin = NoPin \/ pulses = nullptr \/ count = 0
       THEN UNCHANGED <<pulseState, patternState, train, sinceFire, wait>>
       ELSE /\ patternState' = Pattern(pulses, count, 0, TRUE, repeat, pulseDelay)
            /\ pulseState' = [pulseState EXCEPT !.active = FALSE]
            /\ train' = NoTrain
            /\ sinceFire' = 0
            /\ wait' = NoWait
    /\ UNCHANGED <<now, config, melodyState, step>>

(* void pattern(pulses, count, repeat, pulseDelay) (lines 233-242) *)
pattern(pulses, count, repeat, pulseDelay) ==
    /\ ret' = << >>
    /\ invalid' = InvalidInput(config.pin = NoPin \/ pulses = nullptr \/ count = 0)
    /\ started' = StartedWith("pattern",
                              config.pin = NoPin \/ pulses = nullptr \/ count = 0,
                              <<pulses, count, repeat, pulseDelay>>)
    /\ played' = played
    /\ blocking' = blocking
    /\ calls' = << >>
    /\ IF config.pin = NoPin \/ pulses = nullptr \/ count = 0
       THEN UNCHANGED <<pulseState, patternState, train, sinceFire, wait>>
       ELSE LET q == Pattern(pulses, count, 0, TRUE, repeat, pulseDelay)
            IN  /\ patternState' = q
                /\ pulseState' = LoadEntry(q)
                /\ train' = NewTrain(LoadEntry(q).pulses)
                /\ sinceFire' = 0
                /\ wait' = NoWait
    /\ UNCHANGED <<now, config, melodyState, step>>

(* void stopPattern() (lines 256-260) *)
stopPattern ==
    /\ ret' = << >>
    /\ invalid' = << >>
    /\ started' = << >>
    /\ played' = played
    /\ blocking' = blocking
    /\ patternState' = [patternState EXCEPT !.active = FALSE]
    /\ pulseState' = [pulseState EXCEPT !.active = FALSE]
    /\ calls' = << >>
    /\ sinceFire' = 0
    /\ wait' = NoWait
    /\ UNCHANGED <<now, config, melodyState, train, step>>

(* void stopMelody() (lines 292-297), as a function of the melody state *)
StopMelodyCalls == IF config.pin # NoPin THEN << NoToneCall >> ELSE << >>

stopMelody ==
    /\ ret' = << >>
    /\ invalid' = << >>
    /\ started' = << >>
    /\ played' = NoPlay
    /\ blocking' = blocking
    /\ melodyState' = [melodyState EXCEPT !.active = FALSE]
    /\ calls' = StopMelodyCalls
    /\ step' = NoStep
    /\ UNCHANGED <<now, config, pulseState, patternState, train, sinceFire, wait>>

(* melody() with stopMelody() called ahead of the input test of line 264 *)
melodyStopsFirst(tones, count, repeat) ==
    /\ ret' = << >>
    /\ invalid' = InvalidInput(config.pin = NoPin \/ tones = nullptr \/ count = 0)
    /\ started' = StartedWith("melody",
                              config.pin = NoPin \/ tones = nullptr \/ count = 0,
                              <<tones, count, repeat>>)
    /\ played' = PlayedAfterStart(tones, count)
    /\ blocking' = blocking
    /\ calls' = StopMelodyCalls
    /\ IF config.pin = NoPin \/ tones = nullptr \/ count = 0
       THEN /\ melodyState' = [melodyState EXCEPT !.active = FALSE]
            /\ step' = NoStep
       ELSE /\ melodyState' = [tones |-> tones, count |-> count, current |-> 0,
                               active |-> TRUE, repeat |-> repeat,
                               toneStart |-> 0, playingTone |-> FALSE]
            /\ step' = NoStep
    /\ UNCHANGED <<now, config, pulseState, patternState, train, sinceFire, wait>>

(* void melody(tones, count, repeat) (lines 262-274) *)
melody(tones, count, repeat) ==
    /\ ret' = << >>
    /\ invalid' = InvalidInput(config.pin = NoPin \/ tones = nullptr \/ count = 0)
    /\ started' = StartedWith("melody",
                              config.pin = NoPin \/ tones = nullptr \/ count = 0,
                              <<tones, count, repeat>>)
    /\ played' = PlayedAfterStart(tones, count)
    /\ blocking' = blocking
    /\ IF config.pin = NoPin \/ tones = nullptr \/ count = 0
       THEN /\ calls' = << >>
            /\ UNCHANGED <<melodyState, step>>
       ELSE /\ calls' = StopMelodyCalls
            /\ melodyState' = [tones |-> tones, count |-> count, current |-> 0,
                               active |-> TRUE, repeat |-> repeat,
                               toneStart |-> 0, playingTone |-> FALSE]
            /\ step' = NoStep
    /\ UNCHANGED <<now, config, pulseState, patternState, train, sinceFire, wait>>

-----------------------------------------------------------------------------
TickStep == \E dt \in 1..MaxJump : Tick(dt)
SetupStep == \E p \in Pins, force \in BOOLEAN : setup(p, force)
SetConfigStep == \E p \in Pins : setConfig(p)
BeepStep == \E f \in PulseFrequencies, d \in {MaxDuration} : beep(f, d)
PulseCalls(C, D, I) ==
    \E c \in C, f \in PulseFrequencies, d \in D, i \in I : pulse(c, f, d, i)
PatternCalls(P, R, PD) ==
    \E p \in P, r \in R, pd \in PD :
        \E c \in CallerCounts(PulseArrays, p) : pattern(p, c, r, pd)
MelodyCalls(T, R) ==
    \E t \in T, r \in R :
        \E c \in CallerCounts(ToneArrays, t) : melody(t, c, r)

(* Every operation, on every input of the model *)
PulseStep == PulseCalls(Counts, Durations, Intervals)
PatternStep == PatternCalls(PulsePtrs, BOOLEAN, Delays)
MelodyStep == MelodyCalls(TonePtrs, BOOLEAN)

Next ==
    \/ TickStep
    \/ update
    \/ SetupStep
    \/ SetConfigStep
    \/ BeepStep
    \/ PulseStep
    \/ PatternStep
    \/ stopPattern
    \/ MelodyStep
    \/ stopMelody

Spec == Init /\ [][Next]_vars

-----------------------------------------------------------------------------
(* The state after setup(pin) with a valid pin (lines 43-45, 52) *)
InitConfigured ==
    /\ now = 0
    /\ config = Config(9)
    /\ pulseState = Pulse(0, 0, 0, 0, 0, FALSE)
    /\ patternState = Pattern(nullptr, 0, 0, FALSE, FALSE, DefaultPulseDelay)
    /\ melodyState = Melody(nullptr, 0, 0, FALSE, FALSE)
    /\ ret = << >>
    /\ invalid = << >>
    /\ started = << >>
    /\ calls = << PinModeCall("OUTPUT"), DigitalWriteCall >>
    /\ train = NoTrain
    /\ sinceFire = 0
    /\ step = NoStep
    /\ played = NoPlay
    /\ wait = NoWait
    /\ blocking = << >>

(* The pulse train alone, on every input; a one-entry pattern may own it *)
NextPulse ==
    \/ TickStep
    \/ update
    \/ PulseStep
    \/ PatternCalls({"pa1"}, {FALSE}, {MaxDelay})
    \/ stopPattern

SpecPulse == InitConfigured /\ [][NextPulse]_vars

(* The pattern sequencer on every input, with pulse() cutting in *)
NextPattern ==
    \/ TickStep
    \/ update
    \/ PulseCalls({0, 1}, {MaxDuration}, {0})
    \/ PatternStep
    \/ stopPattern

SpecPattern == InitConfigured /\ [][NextPattern]_vars

(* The melody sequencer on every input, paused by a one-entry pattern and its pulse train *)
NextMelody ==
    \/ TickStep
    \/ update
    \/ PatternCalls({"pa1"}, {FALSE}, {MaxDelay})
    \/ MelodyStep
    \/ stopMelody

SpecMelody == InitConfigured /\ [][NextMelody]_vars

-----------------------------------------------------------------------------
(* The start and stop calls from the state after construction (no pin yet), *)
(* on valid and invalid counts and pointers, with setup() configuring and   *)
(* releasing the pin                                                        *)
NextApi ==
    \/ TickStep
    \/ update
    \/ SetupStep
    \/ PulseCalls({0, 1}, {MaxDuration}, {0})
    \/ PatternCalls({nullptr, "pa1"}, {FALSE}, {MaxDelay})
    \/ stopPattern
    \/ MelodyCalls({nullptr, "ta1"}, {FALSE})
    \/ stopMelody

SpecApi == Init /\ [][NextApi]_vars

-----------------------------------------------------------------------------
(* C1: a pulse train started with count > 0 triggers exactly count tones:  *)
(* while it is active the tones triggered so far plus the pulses remaining *)
(* make up count, and once update() has ended it the train is inactive,    *)
(* has triggered exactly count tones and triggers no further one.          *)
PulseTrainFiresCount ==
    /\ pulseState.active => train.fired + pulseState.pulses = train.count
    /\ train.done => ~pulseState.active /\ train.fired = train.count

(* A train of MaxCount tones started by pulse() has completed *)
PulseTrainCompleted ==
    /\ train.done
    /\ train.count = MaxCount
    /\ train.fired = MaxCount
    /\ ~patternState.active

(* C2: within one pulse train, a tone that is not the train's first is     *)
(* triggered only when at least interval + duration milliseconds of clock  *)
(* time have passed since the train's previous tone.                       *)
PulseTonesSeparated ==
    [][(train.fired >= 1 /\ train'.fired = train.fired + 1)
          => sinceFire >= pulseState.interval + pulseState.duration]_vars

(* C2, as far as the code keeps it: the separation holds for every tone    *)
(* whose predecessor was not triggered at clock value 0.                   *)
PulseTonesSeparatedUnlessZero ==
    [][(train.fired >= 1 /\ train'.fired = train.fired + 1 /\ pulseState.last # 0)
          => sinceFire >= pulseState.interval + pulseState.duration]_vars

-----------------------------------------------------------------------------
(* C3: pulse(count, ...) with count > 0, called while a pattern is active, *)
(* leaves the pattern inactive when it returns.                            *)
PulseDeactivatesPattern ==
    [][(/\ patternState.active
        /\ \E c \in Counts \ {0}, f \in PulseFrequencies,
              d \in Durations, i \in Intervals : pulse(c, f, d, i))
          => ~patternState'.active]_vars

(* C5: a non-repeating pattern waits no inter-entry delay after its last   *)
(* entry: when update() returns with the last entry's train ended and its  *)
(* tone finished sounding (the clock has reached lastPulseEnd), the        *)
(* pattern is inactive.                                                    *)
NoDelayAfterLastEntry ==
    (/\ ret # << >>
     /\ ~patternState.repeat
     /\ patternState.waitingForDelay /\ ~pulseState.active
     /\ patternState.current = patternState.count - 1
     /\ now >= patternState.lastPulseEnd)
        => ~patternState.active

-----------------------------------------------------------------------------
(* update() takes its pulse block (and returns before the melody block) *)
InPulseBlock == pulseState.active /\ config.pin # NoPin

SilentStepTiming ==
    [][(/\ update
        /\ melodyState.active
        /\ melodyState.current < melodyState.count
        /\ CurrentTone(melodyState).frequency = 0)
          => /\ ~InPulseBlock => ~HasTone(calls')
             /\ melodyState'.current # melodyState.current
                   => /\ melodyState'.current = melodyState.current + 1
                      /\ step.begun
                      /\ step.elapsed >= CurrentTone(melodyState).duration
                                           + CurrentTone(melodyState).rest]_vars

(* A two-step melody has moved past its second step, the silent one *)
SilentStepPassed ==
    /\ melodyState.active
    /\ melodyState.tones = "ta2" /\ melodyState.count = 2
    /\ melodyState.current = 2
    /\ CurrentTone([melodyState EXCEPT !.current = 1]).frequency = 0

(* C8: every melody step of frequency > 0 triggers exactly one tone per    *)
(* pass: update() triggers a tone for a step only if none was triggered    *)
(* for it before, and moves past the step only after exactly one.          *)
OneTonePerMelodyStep ==
    [][(/\ update
        /\ melodyState.active
        /\ melodyState.current < melodyState.count
        /\ CurrentTone(melodyState).frequency > 0)
          => /\ (~InPulseBlock /\ HasTone(calls')) => step.tones = 0
             /\ melodyState'.current = melodyState.current + 1
                   => step.tones = 1]_vars

-----------------------------------------------------------------------------
(* C9: pulse(), pattern() and melody() called with count = 0, with a null  *)
(* sequence or with no pin configured change none of the pulse, pattern    *)
(* and melody states and make no pin driver call.                          *)
InvalidCallsAreNoOps ==
    invalid # << >>
        => /\ invalid[1] = <<pulseState, patternState, melodyState>>
           /\ calls = << >>

(* A start call with invalid input has returned while a melody was in the  *)
(* middle of a step and a pattern was active; both still are.              *)
RejectedWhilePlaying ==
    /\ invalid # << >>
    /\ config.pin # NoPin
    /\ melodyState.active /\ melodyState.toneStart # 0
    /\ patternState.active

(* C10: with a pin configured, stopPattern() on an active pattern whose    *)
(* train has just triggered a tone, and stopMelody() on an active melody,  *)
(* return with the active flags cleared and a stop-tone command issued to  *)
(* the pin driver within the call.                                         *)
StopsAreSynchronous ==
    [][/\ (/\ stopPattern
           /\ patternState.active /\ HasTone(calls) /\ config.pin # NoPin)
             => /\ ~patternState'.active /\ ~pulseState'.active
                /\ HasNoTone(calls')
       /\ (stopMelody /\ melodyState.active /\ config.pin # NoPin)
             => /\ ~melodyState'.active
                /\ HasNoTone(calls')]_vars

(* C10, the part the code keeps: stopMelody() *)
StopMelodyIsSynchronous ==
    [][(stopMelody /\ melodyState.active /\ config.pin # NoPin)
          => /\ ~melodyState'.active
             /\ HasNoTone(calls')]_vars

-----------------------------------------------------------------------------
(* C11: update() returns true exactly when that call triggered a tone on   *)
(* the pin driver (a tone of the pulse train or of a melody step), and     *)
(* false whenever it triggered none.                                       *)
UpdateReturnsToneTriggered ==
    ret # << >> => (ret[1] <=> HasTone(calls))

(* C11, the part the code keeps: a call that returns false from the pulse  *)
(* block triggered no tone (the converse fails, and so does the melody).   *)
PulseBlockFalseMeansNoTone ==
    [][(update /\ InPulseBlock /\ ret' = << FALSE >>) => ~HasTone(calls')]_vars

-----------------------------------------------------------------------------
(* C12: the pattern's inter-entry delay is decided on elapsed clock time,  *)
(* so it is not cut short when the clock or a timestamp wraps: an update() *)
(* that finds the pattern waiting clears the waiting flag only when at     *)
(* least duration + pulseDelay milliseconds have passed since the call     *)
(* that ended the entry's train (which set lastPulseEnd to that call's     *)
(* clock value + duration).                                                *)
PatternDelayByElapsedTime ==
    [][(/\ update /\ ~InPulseBlock
        /\ patternState.active /\ patternState.waitingForDelay
        /\ ~patternState'.waitingForDelay)
          => wait.end >= WaitCap]_vars

(* C12, the part the code keeps: unless the clock value 0 is taken for an  *)
(* unset timestamp, the melody moves to its next step only when at least   *)
(* duration + rest milliseconds have passed since the step began, at every *)
(* clock value.                                                            *)
MelodyStepByElapsedTime ==
    [][(/\ update
        /\ melodyState.active /\ melodyState.current < melodyState.count
        /\ melodyState'.current # melodyState.current)
          => /\ step.begun
             /\ step.elapsed >= CurrentTone(melodyState).duration
                                  + CurrentTone(melodyState).rest]_vars

-----------------------------------------------------------------------------
(* The caller's loop: update() is called at least once in every            *)
(* millisecond, so the clock moves on by one only after a call of update() *)
TickAfterUpdate == ret # << >> /\ Tick(1)

(* A pattern is started only while none is active (none is restarted) *)
PatternStartStep == ~patternState.active /\ PatternStep

NextLoop ==
    \/ TickAfterUpdate
    \/ update
    \/ PatternStartStep
    \/ stopPattern

(* The loop runs forever: the clock keeps advancing and update() keeps     *)
(* being called                                                            *)
SpecLoop ==
    /\ InitConfigured
    /\ [][NextLoop]_vars
    /\ WF_vars(TickAfterUpdate)
    /\ WF_vars(update)

(* C13: with update() called in every millisecond of a clock that keeps    *)
(* advancing and wrapping, every non-repeating pattern that is started and *)
(* not restarted eventually becomes inactive, at whatever clock value its  *)
(* entries finish.                                                         *)
NonRepeatingPatternEnds ==
    [](patternState.active /\ ~patternState.repeat => <>(~patternState.active))

-----------------------------------------------------------------------------
(* pattern() has just loaded entry 0: nothing of it has been triggered yet *)
PatternJustStarted ==
    /\ patternState.active
    /\ patternState.current = 0
    /\ ~patternState.waitingForDelay
    /\ pulseState.active /\ pulseState.last = 0
    /\ pulseState.pulses = PulseArrays[patternState.pulses][1].pulses
    /\ pulseState.frequency = PulseArrays[patternState.pulses][1].frequency
    /\ pulseState.duration = PulseArrays[patternState.pulses][1].duration
    /\ pulseState.interval = PulseArrays[patternState.pulses][1].interval
    /\ train.fired = 0

(* C14: pattern(list, count, repeat, delay) with valid input replaces the  *)
(* pattern and the pulse train, whatever they were doing: the pattern is   *)
(* active at index 0 with the given list, count, repeat and delay and is   *)
(* not waiting, and entry 0 is loaded into the active pulse train.  When   *)
(* entry 0 has a pulse count > 0, the first update() after the call        *)
(* triggers entry 0's first tone and returns true, whatever the delay.     *)
PatternStartsAtOnce ==
    [][/\ (started' # << >> /\ started'[1].fn = "pattern")
            => /\ PatternJustStarted'
               /\ <<patternState'.pulses, patternState'.count,
                     patternState'.repeat, patternState'.pulseDelay>>
                      = started'[1].args
       /\ (update /\ PatternJustStarted /\ pulseState.pulses > 0)
            => /\ calls' = << ToneCall(pulseState.frequency, pulseState.duration) >>
               /\ ret' = << TRUE >>
               /\ pulseState'.pulses = pulseState.pulses - 1
               /\ patternState' = patternState]_vars

(* Entry 0 of a pattern with the longest delay has triggered its first     *)
(* tone in the update() that followed pattern()                            *)
FirstEntryToneTriggered ==
    /\ ret = << TRUE >>
    /\ patternState.active /\ patternState.current = 0
    /\ patternState.pulseDelay = MaxDelay
    /\ ~patternState.waitingForDelay /\ patternState.lastPulseEnd = 0
    /\ train.fired = 1
    /\ HasTone(calls)

-----------------------------------------------------------------------------
(* A melody alone in the caller's loop: no pulse train, no pattern, and a  *)
(* melody started only while none is active                                *)
MelodyStartStep == ~melodyState.active /\ MelodyStep

NextMelodyLoop ==
    \/ TickAfterUpdate
    \/ update
    \/ MelodyStartStep

SpecMelodyLoop == InitConfigured /\ [][NextMelodyLoop]_vars

(* C15: a non-repeating melody, alone and with update() called at least    *)
(* once in every millisecond, is active for exactly the sum of its steps'  *)
(* duration + rest, counted from the call that begins its first step to    *)
(* the call that clears the active flag.                                   *)
MelodyPlaysExactly ==
    (played.begun /\ ~melodyState.active)
        => played.ms = PlayTime(melodyState.tones, melodyState.count)

(* C15, amended: such a melody is active for at least the sum of its       *)
(* steps' duration + rest, and update() clears the active flag in no call  *)
(* before that time has passed.                                            *)
MelodyPlaysAtLeast ==
    (played.begun /\ ~melodyState.active)
        => played.ms >= PlayTime(melodyState.tones, melodyState.count)

(* update() has ended a melody of two steps, the second of them silent *)
TwoStepMelodyEnded ==
    /\ ret # << >>
    /\ played.begun /\ ~melodyState.active
    /\ melodyState.tones = "ta2" /\ melodyState.count = 2
    /\ melodyState.current = 2

-----------------------------------------------------------------------------
(* A pattern played while the clock does not wrap: the clock runs from 0   *)
(* up to its last value ClockMod - 1                                       *)
TickNoWrapStep == \E dt \in 1..MaxJump : now + dt < ClockMod /\ Tick(dt)

NextNoWrap ==
    \/ TickNoWrapStep
    \/ update
    \/ PatternStep
    \/ stopPattern

SpecNoWrap == InitConfigured /\ [][NextNoWrap]_vars

(* update() loads the pattern's next entry into the pulse train *)
LoadsNextEntry ==
    /\ update /\ ~InPulseBlock
    /\ patternState.active /\ patternState.waitingForDelay
    /\ patternState'.active /\ ~patternState'.waitingForDelay

(* C16: while the clock does not wrap, update() loads the next pattern     *)
(* entry only when at least duration + pulseDelay milliseconds have passed *)
(* since the previous entry's last tone was triggered.                     *)
NextEntryAfterToneAndDelay ==
    [][LoadsNextEntry => wait.tone >= WaitCap]_vars

(* C16, the part the code keeps: the same, when the timestamp              *)
(* lastPulseEnd = clock + duration did not wrap either.                    *)
NextEntryAfterToneAndDelayUnlessWrapped ==
    [][(LoadsNextEntry /\ patternState.lastPulseEnd >= pulseState.duration)
          => wait.tone >= WaitCap]_vars

-----------------------------------------------------------------------------
(* A melody that is given no time of its own: the clock advances only      *)
(* while a pulse train or a pattern is active or while no melody step is   *)
(* under way, and update() is called any number of times in between        *)
TickWhilePausedStep ==
    /\ pulseState.active \/ patternState.active
          \/ ~(melodyState.active /\ step.begun)
    /\ TickStep

NextPause ==
    \/ TickWhilePausedStep
    \/ update
    \/ PulseCalls({1}, {MaxDuration}, {0})
    \/ PatternCalls({"pa1"}, {FALSE}, {MaxDelay})
    \/ MelodyCalls({"ta1", "ta2"}, BOOLEAN)

SpecPause == InitConfigured /\ [][NextPause]_vars

(* C17: the time that passes while a pulse train or a pattern is active    *)
(* does not count towards the thresholds of the paused melody step.  Here  *)
(* no other time passes once a step has begun, so update() ends the tone   *)
(* of no step with duration > 0 and moves past no step with                *)
(* duration + rest > 0: the whole of it is still to be played.             *)
PausedTimeNotCounted ==
    [][(update /\ melodyState.active /\ step.begun
               /\ melodyState.current < melodyState.count)
          => /\ CurrentTone(melodyState).duration > 0
                    => (melodyState.playingTone => melodyState'.playingTone)
             /\ CurrentTone(melodyState).duration
                    + CurrentTone(melodyState).rest > 0
                    => melodyState'.current = melodyState.current]_vars

-----------------------------------------------------------------------------
(* update() runs its melody block and finds the melody at the end of its   *)
(* sequence                                                                *)
FindsEndOfMelody ==
    /\ update /\ ~InPulseBlock
    /\ MelodyRuns(melodyState, config.pin, pulseState', patternState')
    /\ melodyState.current >= melodyState.count

(* C18: when update() finds a melody at the end of its sequence, a         *)
(* repeating melody restarts at step 0 with the step-start timestamp and   *)
(* the sounding flag cleared and stays active; a non-repeating melody is   *)
(* deactivated and a stop-tone command goes to the pin driver in that same *)
(* call.                                                                   *)
EndOfMelodyRestartsOrSilences ==
    [][FindsEndOfMelody
          => IF melodyState.repeat
             THEN /\ melodyState'.active
                  /\ melodyState'.current = 0
                  /\ melodyState'.toneStart = 0
                  /\ ~melodyState'.playingTone
             ELSE /\ ~melodyState'.active
                  /\ HasNoTone(calls')]_vars

(* C18, the part the code keeps: the restart of a repeating melody and the *)
(* deactivation of a non-repeating one.                                    *)
EndOfMelodyRestartsOrDeactivates ==
    [][FindsEndOfMelody
          => IF melodyState.repeat
             THEN /\ melodyState'.active
                  /\ melodyState'.current = 0
                  /\ melodyState'.toneStart = 0
                  /\ ~melodyState'.playingTone
             ELSE ~melodyState'.active]_vars

-----------------------------------------------------------------------------
(* The blocking wrappers pulseBlocking() (lines 226-231), patternBlocking() *)
(* (lines 244-249) and melodyBlocking() (lines 276-285).  Each makes its    *)
(* start call and then loops on update().  The clock advances in the loop,  *)
(* so a wrapper is more than one step: the step pulse(), pattern() or       *)
(* melody() is its start call, EnterLoop, which follows at once, takes it   *)
(* into its loop, update() is called while the loop test holds, and Return  *)
(* ends it.                                                                 *)
Wrappers ==
    [pulseBlocking |-> "pulse", patternBlocking |-> "pattern",
     melodyBlocking |-> "melody"]

(* The loop tests of lines 229, 247 and 279 *)
LoopCondition(w) ==
    CASE w = "pulseBlocking" -> pulseState.pulses # 0
      [] w = "patternBlocking" -> patternState.active \/ pulseState.active
      [] w = "melodyBlocking" -> melodyState.active

(* A start call has just been made, and nothing since *)
StartCallMade == started # << >> \/ invalid # << >>

(* The wrapper has made its start call (which began a sequence, or         *)
(* rejected its input) and reaches its loop; melodyBlocking() clears       *)
(* repeat on the way (line 278)                                            *)
EnterLoop(w) ==
    /\ blocking = << >>
    /\ \/ started # << >> /\ started[1].fn = Wrappers[w]
       \/ invalid # << >>
    /\ blocking' = << [fn |-> w, began |-> started # << >>] >>
    /\ melodyState' = IF w = "melodyBlocking"
                      THEN [melodyState EXCEPT !.repeat = FALSE]
                      ELSE melodyState
    /\ ret' = << >>
    /\ invalid' = << >>
    /\ started' = << >>
    /\ calls' = << >>
    /\ UNCHANGED <<now, config, pulseState, patternState, train, sinceFire, step,
                   played, wait>>

(* The loop test fails and the wrapper returns *)
Return ==
    /\ blocking # << >>
    /\ ~LoopCondition(blocking[1].fn)
    /\ blocking' = << >>
    /\ ret' = << >>
    /\ invalid' = << >>
    /\ started' = << >>
    /\ calls' = << >>
    /\ UNCHANGED <<now, config, pulseState, patternState, melodyState, train,
                   sinceFire, step, played, wait>>

(* update() called by the caller's loop, or by a wrapper whose loop test   *)
(* holds                                                                   *)
UpdateStep ==
    /\ ~StartCallMade
    /\ IF blocking = << >> THEN TRUE ELSE LoopCondition(blocking[1].fn)
    /\ update

EnterLoopStep == \E w \in DOMAIN Wrappers : EnterLoop(w)

(* The calls of a caller that starts its sequences through the wrappers,   *)
(* and stops a pattern, while no wrapper is running                        *)
CallerSteps ==
    /\ blocking = << >>
    /\ ~StartCallMade
    /\ \/ PulseCalls({0, MaxCount}, {MaxDuration}, {0})
       \/ PatternCalls({"pa1"}, BOOLEAN, {MaxDelay})
       \/ MelodyCalls({"ta1"}, BOOLEAN)
       \/ stopPattern

NextBlocking ==
    \/ TickAfterUpdate
    \/ UpdateStep
    \/ CallerSteps
    \/ EnterLoopStep
    \/ Return

(* The clock keeps advancing, update() is called in every millisecond, and *)
(* a wrapper whose loop test fails returns                                 *)
SpecBlocking ==
    /\ InitConfigured
    /\ [][NextBlocking]_vars
    /\ WF_vars(TickAfterUpdate)
    /\ WF_vars(UpdateStep)
    /\ WF_vars(Return)

(* C19: when a blocking wrapper returns, the sequence it started is        *)
(* inactive: the pulse train after pulseBlocking(), the pattern and the    *)
(* pulse train after patternBlocking(), the melody after melodyBlocking(). *)
WrapperReturnsInactive ==
    [][(blocking # << >> /\ blocking' = << >> /\ blocking[1].began)
          => CASE blocking[1].fn = "pulseBlocking" -> ~pulseState'.active
               [] blocking[1].fn = "patternBlocking" ->
                      ~patternState'.active /\ ~pulseState'.active
               [] blocking[1].fn = "melodyBlocking" -> ~melodyState'.active]_vars

(* C19, the part the code keeps: patternBlocking() and melodyBlocking()    *)
PatternAndMelodyWrappersReturnInactive ==
    [][(blocking # << >> /\ blocking' = << >>)
          => CASE blocking[1].fn = "patternBlocking" ->
                      ~patternState'.active /\ ~pulseState'.active
               [] blocking[1].fn = "melodyBlocking" -> ~melodyState'.active
               [] OTHER -> TRUE]_vars

(* C20: every blocking wrapper returns after finitely many update() calls, *)
(* whatever its arguments and the state it is called in, while the clock   *)
(* keeps advancing.                                                        *)
WrapperReturns == (blocking # << >>) ~> (blocking = << >>)

-----------------------------------------------------------------------------
(* The six sequencing operations together, with a configured pin *)
NextConfigured ==
    \/ TickStep
    \/ update
    \/ PulseCalls({1}, {MaxDuration}, {0})
    \/ PatternCalls({"pa1"}, BOOLEAN, {MaxDelay})
    \/ stopPattern
    \/ MelodyCalls({"ta1"}, {FALSE})
    \/ stopMelody

SpecConfigured == InitConfigured /\ [][NextConfigured]_vars

(* update() called in this state reaches the else-if of line 122 and finds *)
(* it true: the pulse block is skipped, the pattern is active and is not   *)
(* waiting, and the pulse train is inactive                                *)
AdvancesImmediately ==
    /\ ~(pulseState.active /\ config.pin # NoPin)
    /\ ~(patternState.active /\ patternState.waitingForDelay)
    /\ patternState.active /\ ~pulseState.active /\ ~patternState.waitingForDelay

(* C21: with a configured pin, an active pattern has an active pulse train *)
(* or its waiting-for-delay flag set, in every state that pulse(),         *)
(* pattern(), melody(), stopPattern(), stopMelody() and update() reach; so *)
(* no update() takes the branch of line 122 that advances at once.         *)
ActivePatternHasTrainOrWaits ==
    /\ patternState.active
           => pulseState.active \/ patternState.waitingForDelay
    /\ ~AdvancesImmediately

(* update() has gone through the pattern block of a pattern that waits     *)
(* with its train ended, and has not advanced it                           *)
PatternWaitsWithoutTrain ==
    /\ ret = << FALSE >>
    /\ patternState.active /\ patternState.waitingForDelay
    /\ ~pulseState.active
    /\ melodyState.active

-----------------------------------------------------------------------------
(* The sequencers on the longest arrays: a pattern and a melody of         *)
(* MaxUint8 entries, each started while the other is inactive, with        *)
(* update() called at least once per millisecond                           *)
LongPatternStep ==
    /\ ~melodyState.active
    /\ \E r \in BOOLEAN : pattern("paMax", MaxUint8, r, 0)

LongMelodyStep ==
    /\ ~patternState.active
    /\ \E r \in BOOLEAN : melody("taMax", MaxUint8, r)

NextBounds ==
    \/ TickAfterUpdate
    \/ update
    \/ LongPatternStep
    \/ LongMelodyStep

SpecBounds == InitConfigured /\ [][NextBounds]_vars

(* The indices of pulses[] that an update() called in this state reads:    *)
(* advancePattern() returns true when it has loaded pulses[current]        *)
(* (lines 78-80)                                                           *)
PulsesReadByUpdate ==
    IF InPulseBlock THEN {}
    ELSE LET a == updatePattern(patternState, pulseState, now)
         IN  IF a.ret THEN {a.pattern.current} ELSE {}

(* The indices of tones[] that an update() called in this state reads: the *)
(* melody block binds tones[current] (line 130) unless it finds the end of *)
(* the sequence                                                            *)
TonesReadByUpdate ==
    IF InPulseBlock THEN {}
    ELSE LET a == updatePattern(patternState, pulseState, now)
         IN  IF /\ MelodyRuns(melodyState, config.pin, a.pulse, a.pattern)
                /\ updateMelody(melodyState, now).ev \notin {"restart", "end"}
             THEN {melodyState.current}
             ELSE {}

(* C22: every read of the caller's arrays is in bounds: an active pattern's *)
(* index is below its count, the melody's index is at most its count, and  *)
(* pattern(), advancePattern() and update() read pulses[i] and tones[i]    *)
(* only at indices i below the count, for counts up to 255 with 8-bit      *)
(* index arithmetic.                                                       *)
ReadsInBounds ==
    /\ patternState.active => patternState.current < patternState.count
    /\ melodyState.current <= melodyState.count
    /\ (started # << >> /\ started[1].fn = "pattern") => 0 < patternState.count
    /\ \A i \in PulsesReadByUpdate : i < patternState.count
    /\ \A i \in TonesReadByUpdate : i < melodyState.count

(* update() has played the longest melody to its end, and has then moved   *)
(* the longest pattern to its last entry                                   *)
LongestArraysTraversed ==
    /\ melodyState.count = MaxUint8 /\ melodyState.current = MaxUint8
    /\ patternState.active /\ patternState.count = MaxUint8
    /\ patternState.current = MaxUint8 - 1
    /\ pulseState.active

====
